---- MODULE Spec2Model ----
(***************************************************************************)
(* A model of the RCPU collector (src/collector/main.go): the counter      *)
(* sampler getCPUTimes, the period calculator NewCPUTimePeriod, the naive  *)
(* and the adjusted (SMT aware) utilisation estimators, the start-up       *)
(* topology validation of main and the sampling loop DoCollectorLoop.      *)
(*                                                                         *)
(* uint64 arithmetic is modulo 2^64 as in Go. A uint64 value v is held as   *)
(* the integer v when v < 2^63 and as the integer v - 2^64 otherwise (its  *)
(* two's-complement reading: -1 stands for 18446744073709551615), since    *)
(* the integers of the model checker end at 2^31 - 1.                      *)
(* A float64 result 100 * (1 - idle/total) is kept as the record           *)
(* [num, den] that stands for 100 * num / den, num and den being numbers   *)
(* hi * 2^64 + lo; the conversion of a uint64 to float64 is modelled, the  *)
(* rounding of the division is not.                                        *)
(***************************************************************************)
EXTENDS Integers, Sequences, FiniteSets, TLC

VARIABLES
    pc,            \* position of the process: "start", "loop", "fatal", "panic"
    cpuInfos,      \* main: the rows returned by getCPUInfos
    cpuToCore,     \* main: map CPU id -> core id
    coreToCpus,    \* main: map core id -> sequence of CPU ids
    prevCPUTimes,  \* DoCollectorLoop: the retained snapshot set
    clock,         \* the monotonic clock read by time.Now()
    emitted,       \* number of rows added to the table (UtilizationSamples)
    last,          \* what the last tick of DoCollectorLoop did
    arg,           \* input of a directly called function
    ret            \* its result

vars == <<pc, cpuInfos, cpuToCore, coreToCpus, prevCPUTimes, clock, emitted, last, arg, ret>>

None == "none"

\* ------------------------------------------------------------------ bounds

\* Largest counter value drawn for a snapshot given to NewCPUTimePeriod.
MaxCounter == 2
\* Largest TotalPeriod / TotalIdlePeriod drawn for a Period given to the estimators.
MaxPeriod == 1
\* Largest number of physical cores of a topology given to the estimators.
MaxCores == 2
\* Number of logical CPU ids known to the sampling loop's environment.
MaxCPUs == 3
\* Largest raw counter value of a /proc/stat line.
MaxRaw == 2
\* The sampling loop is followed for this many ticks.
MaxTicks == 3

\* ------------------------------------------------------------ uint64 words

\* Sums and differences modulo 2^64 of two values held as above are the
\* integer sums and differences: 4095 + 1 is 4096, 0 - 1 is -1 (2^64 - 1).
Add64(a, b) == a + b

Sub64(a, b) == a - b

\* The unsigned order a < b: a value held as a negative integer is at least
\* 2^63 and above every value held as a non-negative one.
Less64(a, b) == IF (a < 0) = (b < 0) THEN a < b ELSE b < 0

Max(a, b) == IF Less64(b, a) THEN a ELSE b

Min(a, b) == IF Less64(a, b) THEN a ELSE b

\* ------------------------------------------------------------------ CPUTime

CounterNames ==
    {"User", "Nice", "Sys", "Idle", "IOWait", "IRQ", "SoftIRQ", "Steal", "Guest", "GuestNice"}

TotalIdleTime(t) == Add64(t.Idle, t.IOWait)

TotalSystemTime(t) == Add64(Add64(t.Sys, t.IRQ), t.SoftIRQ)

TotalVirtualTime(t) == Add64(t.Guest, t.GuestNice)

TotalTime(t) ==
    Add64(Add64(Add64(Add64(Add64(t.User, t.Nice), TotalSystemTime(t)),
                      TotalIdleTime(t)), t.Steal), TotalVirtualTime(t))

\* ------------------------------------------------------- PeriodCalculator

SaturatedSub(a, b) == IF Less64(b, a) THEN Sub64(a, b) ELSE 0

\* t2.CollectTime.Before(t1.CollectTime)
Before(u, v) == u < v

NewCPUTimePeriod(t1, t2) ==
    IF t1.CPUId # t2.CPUId
    THEN [err |-> "CPU IDs don't match", period |-> None]
    ELSE IF Before(t2.CollectTime, t1.CollectTime)
    THEN [err |-> "collect time is not in order", period |-> None]
    ELSE [err |-> None,
          period |-> [CPUId |-> t1.CPUId,
                      UserPeriod |-> SaturatedSub(t2.User, t1.User),
                      NicePeriod |-> SaturatedSub(t2.Nice, t1.Nice),
                      SysPeriod |-> SaturatedSub(t2.Sys, t1.Sys),
                      TotalSystemPeriod |-> SaturatedSub(TotalSystemTime(t2), TotalSystemTime(t1)),
                      IdlePeriod |-> SaturatedSub(t2.Idle, t1.Idle),
                      TotalIdlePeriod |-> SaturatedSub(TotalIdleTime(t2), TotalIdleTime(t1)),
                      IOWaitPeriod |-> SaturatedSub(t2.IOWait, t1.IOWait),
                      IRQPeriod |-> SaturatedSub(t2.IRQ, t1.IRQ),
                      SoftIRQPeriod |-> SaturatedSub(t2.SoftIRQ, t1.SoftIRQ),
                      StealPeriod |-> SaturatedSub(t2.Steal, t1.Steal),
                      GuestPeriod |-> SaturatedSub(t2.Guest, t1.Guest),
                      TotalPeriod |-> SaturatedSub(TotalTime(t2), TotalTime(t1))]]

\* ------------------------------------------------------------- estimators

\* Sum of a map's values as the code accumulates it in a uint64.
RECURSIVE Sum64(_)
Sum64(f) ==
    IF DOMAIN f = {} THEN 0
    ELSE LET x == CHOOSE y \in DOMAIN f : TRUE
         IN Add64(f[x], Sum64([y \in DOMAIN f \ {x} |-> f[y]]))

\* float64(v) of a uint64 v, as the number hi * 2^64 + lo. A value held as a
\* non-negative integer is below 2^31 and converts exactly. A value held as a
\* negative integer is 2^64 - w with 0 < w < 2^31: the 53-bit mantissa of
\* float64 keeps multiples of 2048 there, so the conversion rounds to the
\* nearest 2^64 - 2048 * a, a tie (w = 2048 * k + 1024) to the even a.
Float64(v) ==
    IF v >= 0
    THEN [hi |-> 0, lo |-> v]
    ELSE LET w == -v
             k == w \div 2048
             r == w % 2048
             a == IF r < 1024 THEN k
                  ELSE IF r > 1024 THEN k + 1
                  ELSE IF k % 2 = 0 THEN k ELSE k + 1
         IN [hi |-> 1, lo |-> -(2048 * a)]

\* 100.0 * (1 - float64(idle)/float64(total)): the record [num, den] stands
\* for the number 100 * num / den, with num = float64(total) - float64(idle)
\* and den = float64(total), each a number hi * 2^64 + lo. The operands are
\* converted as float64 converts them; the quotient is kept exact.
Utilization(totalIdlePeriod, totalPeriod) ==
    LET idle == Float64(totalIdlePeriod)
        total == Float64(totalPeriod)
    IN [num |-> [hi |-> total.hi - idle.hi, lo |-> total.lo - idle.lo], den |-> total]

DoAverageCPUUsageNoZeroCheck(cpuTimePeriods) ==
    LET totalPeriod == Sum64([c \in DOMAIN cpuTimePeriods |-> cpuTimePeriods[c].TotalPeriod])
        totalIdlePeriod == Sum64([c \in DOMAIN cpuTimePeriods |-> cpuTimePeriods[c].TotalIdlePeriod])
    IN [panic |-> FALSE, err |-> None, usage |-> Utilization(totalIdlePeriod, totalPeriod)]

DoAverageCPUUsage(cpuTimePeriods) ==
    LET totalPeriod == Sum64([c \in DOMAIN cpuTimePeriods |-> cpuTimePeriods[c].TotalPeriod])
        totalIdlePeriod == Sum64([c \in DOMAIN cpuTimePeriods |-> cpuTimePeriods[c].TotalIdlePeriod])
    IN IF totalPeriod = 0
       THEN [panic |-> FALSE, err |-> "total period is zero", usage |-> None]
       ELSE [panic |-> FALSE, err |-> None, usage |-> Utilization(totalIdlePeriod, totalPeriod)]

\* The sibling rule of a core: max of the total periods, min of the idle periods.
CorePeriod(ht0, ht1) == Max(ht0.TotalPeriod, ht1.TotalPeriod)

CoreIdlePeriod(ht0, ht1) == Min(ht0.TotalIdlePeriod, ht1.TotalIdlePeriod)

\* cpuIds[0], cpuIds[1] and the two map lookups of a core can be evaluated:
\* a missing index is an index-out-of-range panic, a missing map entry is a nil
\* *CPUTimePeriod whose field read panics.
CoreReadable(cpuIds, cpuTimePeriods) ==
    /\ Len(cpuIds) >= 2
    /\ cpuIds[1] \in DOMAIN cpuTimePeriods
    /\ cpuIds[2] \in DOMAIN cpuTimePeriods

DoAdjustedCPUUsage(cpuToCores, coreToCpusMap, cpuTimePeriods) ==
    IF \E core \in DOMAIN coreToCpusMap : ~CoreReadable(coreToCpusMap[core], cpuTimePeriods)
    THEN [panic |-> TRUE, err |-> None, usage |-> None]
    ELSE LET ht0(core) == cpuTimePeriods[coreToCpusMap[core][1]]
             ht1(core) == cpuTimePeriods[coreToCpusMap[core][2]]
             totalPeriod ==
                 Sum64([core \in DOMAIN coreToCpusMap |-> CorePeriod(ht0(core), ht1(core))])
             totalIdlePeriod ==
                 Sum64([core \in DOMAIN coreToCpusMap |-> CoreIdlePeriod(ht0(core), ht1(core))])
         IN IF totalPeriod = 0
            THEN [panic |-> FALSE, err |-> "total period is zero", usage |-> None]
            ELSE [panic |-> FALSE, err |-> None,
                  usage |-> Utilization(totalIdlePeriod, totalPeriod)]

\* --------------------------------------------------------------- topology

\* A field of a text line, as strconv.ParseInt / ParseUint sees it: a decimal
\* number (ok, with its value) or any other text (not ok).
Num(n) == [ok |-> TRUE, val |-> n]

Text == [ok |-> FALSE, val |-> 0]

\* strconv.ParseInt / ParseUint returned no error.
IsNumber(x) == x.ok

\* The comparison of sort.Slice in getCPUInfos.
InfoLess(a, b) ==
    IF a.NodeId # b.NodeId THEN a.NodeId < b.NodeId
    ELSE IF a.SocketId # b.SocketId THEN a.SocketId < b.SocketId
    ELSE IF a.CoreId # b.CoreId THEN a.CoreId < b.CoreId
    ELSE a.CPUId < b.CPUId

RECURSIVE InsertInfo(_, _)
InsertInfo(sorted, info) ==
    IF sorted = <<>> THEN <<info>>
    ELSE IF InfoLess(info, Head(sorted)) THEN <<info>> \o sorted
    ELSE <<Head(sorted)>> \o InsertInfo(Tail(sorted), info)

RECURSIVE SortInfos(_)
SortInfos(infos) ==
    IF infos = <<>> THEN <<>>
    ELSE InsertInfo(SortInfos(SubSeq(infos, 1, Len(infos) - 1)), infos[Len(infos)])

\* The rows kept by the parsing loop of getCPUInfos, in input order.
RECURSIVE ParseInfos(_)
ParseInfos(rows) ==
    IF rows = <<>> THEN <<>>
    ELSE LET items == Head(rows)
         IN IF Len(items) < 4 \/ \E k \in 1..4 : ~IsNumber(items[k])
            THEN ParseInfos(Tail(rows))
            ELSE <<[CPUId |-> items[1].val, CoreId |-> items[4].val,
                    SocketId |-> items[3].val, NodeId |-> items[2].val]>>
                 \o ParseInfos(Tail(rows))

\* What reading an external source gives: its lines, or a failure to read it.
Readable(lines) == [ok |-> TRUE, lines |-> lines]

Unreadable == [ok |-> FALSE, lines |-> <<>>]

\* lsCPU is Unreadable when lscpu cannot be found or run.
getCPUInfos(lsCPU) ==
    IF ~lsCPU.ok THEN [err |-> "failed to run lscpu", infos |-> <<>>]
    ELSE IF Len(ParseInfos(lsCPU.lines)) = 0
    THEN [err |-> "failed to get CPU infos", infos |-> <<>>]
    ELSE [err |-> None, infos |-> SortInfos(ParseInfos(lsCPU.lines))]

\* main, lines 510-513: later rows overwrite earlier ones.
CpuToCoreOf(infos) ==
    [c \in {infos[i].CPUId : i \in DOMAIN infos} |->
        infos[CHOOSE i \in DOMAIN infos :
                /\ infos[i].CPUId = c
                /\ \A j \in DOMAIN infos : infos[j].CPUId = c => j <= i].CoreId]

\* main, lines 515-518: the CPU ids of a core, appended in row order.
RECURSIVE CpusOfCore(_, _)
CpusOfCore(infos, core) ==
    IF infos = <<>> THEN <<>>
    ELSE (IF Head(infos).CoreId = core THEN <<Head(infos).CPUId>> ELSE <<>>)
         \o CpusOfCore(Tail(infos), core)

CoreToCpusOf(infos) ==
    [core \in {infos[i].CoreId : i \in DOMAIN infos} |-> CpusOfCore(infos, core)]

TopologyValidAtLeastTwo(coreToCpusMap) ==
    \A core \in DOMAIN coreToCpusMap : Len(coreToCpusMap[core]) >= 2

\* main, lines 520-524.
TopologyValid(coreToCpusMap) ==
    \A core \in DOMAIN coreToCpusMap : Len(coreToCpusMap[core]) = 2

\* --------------------------------------------------------- CounterSampler

\* A line of /proc/stat after strings.Fields: its first field is split into
\* whether it starts with "cpu" and what follows that prefix; the other fields
\* are in `items`.  The system-wide line "cpu ..." has nothing after the prefix.
StatLine(hasPrefix, suffix, items) == [cpu |-> hasPrefix, suffix |-> suffix, items |-> items]

\* The conditions under which the loop body of getCPUTimes reaches the append.
LineAccepted(line) ==
    /\ ~(Len(line.items) + 1 < 11)
    /\ line.cpu
    /\ IsNumber(line.suffix)
    /\ \A k \in 1..10 : IsNumber(line.items[k])

\* user -= guest; nice -= guestNice; and the CPUTime built from the line.
CPUTimeOfLine(line, now) ==
    LET v(k) == line.items[k].val
    IN [CPUId |-> line.suffix.val,
        CollectTime |-> now,
        User |-> Sub64(v(1), v(9)),
        Nice |-> Sub64(v(2), v(10)),
        Sys |-> v(3),
        Idle |-> v(4),
        IOWait |-> v(5),
        IRQ |-> v(6),
        SoftIRQ |-> v(7),
        Steal |-> v(8),
        Guest |-> v(9),
        GuestNice |-> v(10)]

RECURSIVE ScanLines(_, _)
ScanLines(lines, now) ==
    IF lines = <<>> THEN <<>>
    ELSE (IF LineAccepted(Head(lines)) THEN <<CPUTimeOfLine(Head(lines), now)>> ELSE <<>>)
         \o ScanLines(Tail(lines), now)

\* procStat is Unreadable when /proc/stat cannot be opened or read.
getCPUTimes(procStat, now) ==
    IF ~procStat.ok
    THEN [err |-> "failed to open /proc/stat", cpuTimes |-> <<>>]
    ELSE [err |-> None, cpuTimes |-> ScanLines(procStat.lines, now)]

\* ------------------------------------------------------------------- main

\* strings.Contains(model, "Intel") for the model names /proc/cpuinfo offers.
ContainsIntel(model) == model \in {"Intel(R) Xeon(R) Platinum 8352Y"}

\* The outcome of main up to the call of DoCollectorLoop.  cpuInfo is the model
\* name of /proc/cpuinfo ("failed": no such line or unreadable), smtActive the
\* content of /sys/devices/system/cpu/smt/active ("failed": unreadable), lsCPU
\* the rows printed by lscpu (Unreadable: it cannot be run).
MainOutcome(cpuInfo, smtActive, lsCPU) ==
    LET r == getCPUInfos(lsCPU)
    IN IF cpuInfo = "failed" THEN "failed to get CPU model"
       ELSE IF ~ContainsIntel(cpuInfo) THEN "unsupported CPU model"
       ELSE IF smtActive = "failed" THEN "failed to check if SMT is enabled"
       ELSE IF smtActive # "1" THEN "SMT is not enabled"
       ELSE IF r.err # None THEN "failed to get CPU infos"
       ELSE IF ~TopologyValid(CoreToCpusOf(r.infos)) THEN "core has not 2 CPUs"
       ELSE "Collector is running"

\* ---------------------------------------------------------- DoCollectorLoop

EmptyMap == [c \in {} |-> None]

MapPut(m, k, v) == [c \in DOMAIN m \cup {k} |-> IF c = k THEN v ELSE m[c]]

\* The pairing loop, lines 435-445, from index i on (indices from 1 here):
\* cpuTimes[i] beyond the slice panics, an error of NewCPUTimePeriod is fatal.
RECURSIVE PairFrom(_, _, _, _)
PairFrom(prev, cur, i, acc) ==
    IF i > Len(prev) THEN [outcome |-> "ok", periods |-> acc]
    ELSE IF i > Len(cur) THEN [outcome |-> "index out of range", periods |-> acc]
    ELSE LET r == NewCPUTimePeriod(prev[i], cur[i])
         IN IF r.err # None
            THEN [outcome |-> "failed to create CPU time period", periods |-> acc]
            ELSE PairFrom(prev, cur, i + 1, MapPut(acc, prev[i].CPUId, r.period))

\* One iteration of `for range ticker.C`, as the record of what it did.
TickResult(prev, coreMap, cpuMap, procStat, now) ==
    LET r == getCPUTimes(procStat, now)
        cur == r.cpuTimes
        pairing == PairFrom(prev, cur, 1, EmptyMap)
        avg == DoAverageCPUUsage(pairing.periods)
        adj == DoAdjustedCPUUsage(cpuMap, coreMap, pairing.periods)
        outcome ==
            IF r.err # None THEN "failed to get CPU times"
            ELSE IF Len(prev) = 0 THEN "baseline"
            ELSE IF pairing.outcome # "ok" THEN pairing.outcome
            ELSE IF avg.err # None THEN "failed to calculate average CPU usage"
            ELSE IF adj.panic THEN "nil pointer dereference"
            ELSE IF adj.err # None THEN "failed to calculate adjusted CPU usage"
            ELSE "emitted"
    IN [outcome |-> outcome, readErr |-> r.err # None, prev |-> prev, cur |-> cur,
        periods |-> IF r.err # None \/ Len(prev) = 0 THEN EmptyMap ELSE pairing.periods,
        avg |-> IF outcome \in {"failed to calculate adjusted CPU usage", "emitted",
                                "nil pointer dereference"}
                THEN avg.usage ELSE None,
        adjusted |-> IF outcome = "emitted" THEN adj.usage ELSE None]

\* log.Fatalf ends the process.
FatalOutcomes ==
    {"failed to get CPU times", "failed to create CPU time period",
     "failed to calculate average CPU usage", "failed to calculate adjusted CPU usage"}

\* A runtime panic ends the process.
PanicOutcomes == {"index out of range", "nil pointer dereference"}

\* ------------------------------------------------- environment of the loop

CPUIds == 0 .. (MaxCPUs - 1)

\* lscpu rows of n CPUs, CPU i on core coreOf[i].
RECURSIVE LsCPURows(_, _)
LsCPURows(n, coreOf) ==
    IF n = 0 THEN <<>>
    ELSE LsCPURows(n - 1, coreOf) \o <<<<Num(n - 1), Num(0), Num(0), coreOf[n - 1]>>>>

\* What lscpu prints: the header line, then one row per CPU.  Siblings are
\* adjacent CPUs, or every CPU is its own core, or all CPUs share one core, or
\* the last CPU is offline and has no core ("-").
LsCPUHeader == <<Text, Text, Text, Text>>

LsCPUOutputs ==
    {Unreadable, Readable(<<LsCPUHeader>>)}
    \cup { Readable(<<LsCPUHeader>> \o LsCPURows(n, [i \in 0 .. (n - 1) |-> Num(i \div 2)])) : n \in 1 .. MaxCPUs }
    \cup { Readable(<<LsCPUHeader>> \o LsCPURows(n, [i \in 0 .. (n - 1) |-> Num(i)])) : n \in 1 .. MaxCPUs }
    \cup { Readable(<<LsCPUHeader>> \o LsCPURows(n, [i \in 0 .. (n - 1) |-> Num(0)])) : n \in 1 .. MaxCPUs }
    \cup { Readable(<<LsCPUHeader>> \o LsCPURows(n, [i \in 0 .. (n - 1) |->
                                              IF i = n - 1 THEN Text ELSE Num(i \div 2)]))
           : n \in 1 .. MaxCPUs }

CPUInfoModels == {"failed", "Intel(R) Xeon(R) Platinum 8352Y", "AMD EPYC 7763"}

SMTActiveValues == {"failed", "1", "0"}

\* The raw counters of a /proc/stat line at load level k: level 0 is a CPU
\* whose counters are all zero, level 1 one that has run in every category.
RawCounters(k) ==
    <<Num(3 * k), Num(2 * k), Num(k), Num(4 * k), Num(k), Num(k), Num(k), Num(k), Num(k), Num(k)>>

\* The CPU ids of a set in ascending order, as /proc/stat lists them.
RECURSIVE Ascending(_)
Ascending(S) ==
    IF S = {} THEN <<>>
    ELSE LET m == CHOOSE x \in S : \A y \in S : x <= y
         IN <<m>> \o Ascending(S \ {m})

Reverse(q) == [i \in DOMAIN q |-> q[Len(q) + 1 - i]]

\* The orders in which a /proc/stat lists per-CPU lines: any subset of the
\* CPUs (none, some offline, all), ascending or descending.
IdOrders == { Ascending(S) : S \in SUBSET CPUIds } \cup { Reverse(Ascending(S)) : S \in SUBSET CPUIds }

\* The load level of the i-th per-CPU line: all CPUs at level 0, all at level
\* 1, alternating, or only the lines after the second at level 1.
LoadPatterns == {"zero", "one", "uneven", "tail"}

LoadLevel(pattern, i) ==
    IF pattern = "zero" THEN 0
    ELSE IF pattern = "one" THEN 1
    ELSE IF pattern = "uneven" THEN i % 2
    ELSE IF i > 2 THEN 1 ELSE 0

\* The /proc/stat contents offered to a tick: unreadable, or the system-wide
\* line followed by one line per listed CPU.
ProcStats ==
    {Unreadable}
    \cup { Readable(<<StatLine(TRUE, Text, RawCounters(1))>>
                    \o [i \in DOMAIN q |-> StatLine(TRUE, Num(q[i]), RawCounters(LoadLevel(pat, i)))])
           : q \in IdOrders, pat \in LoadPatterns }

\* --------------------------------------------------------------- the loop

NoCall == [fn |-> "none"]

NoResult == [done |-> FALSE]

Idle == arg = NoCall /\ ret = NoResult

\* The record kept in `last` when no tick has run yet.
NoTick(outcome) ==
    [outcome |-> outcome, readErr |-> FALSE, prev |-> <<>>, cur |-> <<>>,
     periods |-> EmptyMap, avg |-> None, adjusted |-> None]

Init ==
    /\ pc = "start"
    /\ cpuInfos = <<>>
    /\ cpuToCore = EmptyMap
    /\ coreToCpus = EmptyMap
    /\ prevCPUTimes = <<>>
    /\ clock = 0
    /\ emitted = 0
    /\ last = NoTick("none")
    /\ Idle

\* main, up to and including the call of DoCollectorLoop or a log.Fatalf.
Main ==
    /\ pc = "start"
    /\ \E cpuInfo \in CPUInfoModels, smtActive \in SMTActiveValues, lsCPU \in LsCPUOutputs :
         LET out == MainOutcome(cpuInfo, smtActive, lsCPU)
             infos == getCPUInfos(lsCPU).infos
             reached == out \in {"core has not 2 CPUs", "Collector is running"}
         IN /\ pc' = IF out = "Collector is running" THEN "loop" ELSE "fatal"
            /\ cpuInfos' = IF reached THEN infos ELSE <<>>
            /\ cpuToCore' = IF reached THEN CpuToCoreOf(infos) ELSE EmptyMap
            /\ coreToCpus' = IF reached THEN CoreToCpusOf(infos) ELSE EmptyMap
            /\ last' = NoTick(out)
    /\ UNCHANGED <<prevCPUTimes, clock, emitted, arg, ret>>

\* One tick of DoCollectorLoop.
Tick ==
    /\ pc = "loop"
    /\ clock < MaxTicks
    /\ \E procStat \in ProcStats :
         LET t == TickResult(prevCPUTimes, coreToCpus, cpuToCore, procStat, clock + 1)
         IN /\ last' = t
            /\ pc' = IF t.outcome \in FatalOutcomes THEN "fatal"
                     ELSE IF t.outcome \in PanicOutcomes THEN "panic"
                     ELSE "loop"
            /\ prevCPUTimes' = IF t.outcome \in {"baseline", "emitted"} THEN t.cur
                               ELSE prevCPUTimes
            /\ emitted' = IF t.outcome = "emitted" THEN emitted + 1 ELSE emitted
    /\ clock' = clock + 1
    /\ UNCHANGED <<cpuInfos, cpuToCore, coreToCpus, arg, ret>>

Next == Main \/ Tick

Spec == Init /\ [][Next]_vars

\* ------------------------------------------- the functions, called directly

\* The loop's variables while a function is called on its own.
LoopOff ==
    /\ pc = "off"
    /\ cpuInfos = <<>>
    /\ cpuToCore = EmptyMap
    /\ coreToCpus = EmptyMap
    /\ prevCPUTimes = <<>>
    /\ clock = 0
    /\ emitted = 0
    /\ last = NoTick("none")

loopVars == <<pc, cpuInfos, cpuToCore, coreToCpus, prevCPUTimes, clock, emitted, last>>

\* A snapshot whose counters are all `base`, but for the counters f and g.
Snap(cpu, time, base, f, vf, g, vg) ==
    LET v(x) == IF x = f THEN vf ELSE IF x = g THEN vg ELSE base
    IN [CPUId |-> cpu, CollectTime |-> time,
        User |-> v("User"), Nice |-> v("Nice"), Sys |-> v("Sys"), Idle |-> v("Idle"),
        IOWait |-> v("IOWait"), IRQ |-> v("IRQ"), SoftIRQ |-> v("SoftIRQ"),
        Steal |-> v("Steal"), Guest |-> v("Guest"), GuestNice |-> v("GuestNice")]

\* A pair of snapshots: the counters f and g move freely (up or down) between
\* the snapshots, the other eight stay or advance together by d; the CPU ids
\* and the collection times agree or differ.
PeriodInput(f, g, a1, a2, b1, b2, d, c2, tm1, tm2) ==
    [fn |-> "NewCPUTimePeriod",
     t1 |-> Snap(0, tm1, 1, f, a1, g, a2),
     t2 |-> Snap(c2, tm2, 1 + d, f, b1, g, b2)]

InitPeriod ==
    /\ LoopOff
    /\ ret = NoResult
    /\ \E f \in CounterNames, g \in CounterNames,
          a1 \in 0 .. MaxCounter, a2 \in 0 .. MaxCounter,
          b1 \in 0 .. MaxCounter, b2 \in 0 .. MaxCounter,
          d \in 0 .. 1, c2 \in 0 .. 1, tm1 \in 0 .. 1, tm2 \in 0 .. 1 :
         /\ f # g
         /\ arg = PeriodInput(f, g, a1, a2, b1, b2, d, c2, tm1, tm2)

CallNewCPUTimePeriod ==
    /\ arg.fn = "NewCPUTimePeriod"
    /\ ~ret.done
    /\ ret' = [done |-> TRUE, val |-> NewCPUTimePeriod(arg.t1, arg.t2)]
    /\ UNCHANGED <<arg, loopVars>>

NextPeriod == CallNewCPUTimePeriod

SpecPeriod == InitPeriod /\ [][NextPeriod]_vars

\* A Period of which only the two aggregates the estimators read are set.
MkPeriod(cpu, total, idle) ==
    [CPUId |-> cpu, UserPeriod |-> 0, NicePeriod |-> 0, SysPeriod |-> 0,
     TotalSystemPeriod |-> 0, IdlePeriod |-> 0, TotalIdlePeriod |-> idle,
     IOWaitPeriod |-> 0, IRQPeriod |-> 0, SoftIRQPeriod |-> 0, StealPeriod |-> 0,
     GuestPeriod |-> 0, TotalPeriod |-> total]

\* The rows of getCPUInfos for n cores of two CPUs each: siblings are the CPUs
\* 2c and 2c+1 ("adjacent") or the CPUs c and c+n ("split").
TopologyInfos(n, layout) ==
    getCPUInfos(Readable(LsCPURows(2 * n,
        [i \in 0 .. (2 * n - 1) |-> IF layout = "adjacent" THEN Num(i \div 2) ELSE Num(i % n)]))).infos

\* The worked example: one core, siblings (total 1000, idle 800) and (1000, 200).
ExamplePeriods == <<MkPeriod(0, 1000, 800), MkPeriod(1, 1000, 200)>>

ExampleInput ==
    [fn |-> "estimators",
     cpuToCore |-> CpuToCoreOf(TopologyInfos(1, "adjacent")),
     coreToCpus |-> CoreToCpusOf(TopologyInfos(1, "adjacent")),
     periods |-> [c \in 0 .. 1 |-> ExamplePeriods[c + 1]]]

\* A Period mapping over a topology of n cores: the two aggregates of the
\* first four CPUs are given by tv (idle periods above the total period
\* included), a further CPU c repeats CPU c mod 4.
UsageInput(n, layout, tv) ==
    [fn |-> "estimators",
     cpuToCore |-> CpuToCoreOf(TopologyInfos(n, layout)),
     coreToCpus |-> CoreToCpusOf(TopologyInfos(n, layout)),
     periods |-> [c \in 0 .. (2 * n - 1) |-> MkPeriod(c, tv[c % 4][1], tv[c % 4][2])]]

\* Total periods and total idle periods at the upper end of uint64 (-1 is
\* held for 2^64 - 1, -2 for 2^64 - 2), next to small ones.
LargeTotalPeriods == {-1, 0, 1}

LargeIdlePeriods == {-2, -1, 0}

InitUsage ==
    /\ LoopOff
    /\ ret = NoResult
    /\ \/ arg = ExampleInput
       \/ \E n \in 1 .. MaxCores, layout \in {"adjacent", "split"} :
            \E tv \in [0 .. Min(2 * n - 1, 3) -> (0 .. MaxPeriod) \X (0 .. MaxPeriod)] :
                arg = UsageInput(n, layout, tv)
       \/ \E n \in 1 .. 2 :
            \E tv \in [0 .. (2 * n - 1) -> LargeTotalPeriods \X LargeIdlePeriods] :
                arg = UsageInput(n, "adjacent", tv)

CallEstimators ==
    /\ arg.fn = "estimators"
    /\ ~ret.done
    /\ ret' = [done |-> TRUE,
               avg |-> DoAverageCPUUsage(arg.periods),
               adjusted |-> DoAdjustedCPUUsage(arg.cpuToCore, arg.coreToCpus, arg.periods)]
    /\ UNCHANGED <<arg, loopVars>>

NextUsage == CallEstimators

SpecUsage == InitUsage /\ [][NextUsage]_vars

\* One snapshot per CPU of a topology, each to be paired with itself; the
\* counters of the first four CPUs are given by b, a further CPU c follows CPU
\* c mod 4.
SelfPairInput(n, layout, tm, b) ==
    [fn |-> "selfpair",
     cpuToCore |-> CpuToCoreOf(TopologyInfos(n, layout)),
     coreToCpus |-> CoreToCpusOf(TopologyInfos(n, layout)),
     times |-> [c \in 0 .. (2 * n - 1) |->
                  Snap(c, tm, b[c % 4], "User", b[c % 4] + c, "Idle", 2 * b[c % 4] + 1)]]

InitSelfPair ==
    /\ LoopOff
    /\ ret = NoResult
    /\ \E n \in 1 .. MaxCores, layout \in {"adjacent", "split"}, tm \in 0 .. 1 :
         \E b \in [0 .. Min(2 * n - 1, 3) -> 0 .. MaxCounter] :
             arg = SelfPairInput(n, layout, tm, b)

\* NewCPUTimePeriod of every snapshot with a copy of itself, then both estimators.
CallSelfPair ==
    /\ arg.fn = "selfpair"
    /\ ~ret.done
    /\ LET made == [c \in DOMAIN arg.times |-> NewCPUTimePeriod(arg.times[c], arg.times[c])]
           periods == [c \in { x \in DOMAIN made : made[x].err = None } |-> made[c].period]
       IN ret' = [done |-> TRUE,
                  made |-> made,
                  avg |-> DoAverageCPUUsage(periods),
                  adjusted |-> DoAdjustedCPUUsage(arg.cpuToCore, arg.coreToCpus, periods)]
    /\ UNCHANGED <<arg, loopVars>>

NextSelfPair == CallSelfPair

SpecSelfPair == InitSelfPair /\ [][NextSelfPair]_vars

\* The remaining capacity the loop derives from a usage: 100.0 - usage.
Remaining(usage) ==
    [num |-> [hi |-> usage.den.hi - usage.num.hi, lo |-> usage.den.lo - usage.num.lo],
     den |-> usage.den]

\* Two consecutive snapshot sets of a topology of n cores: between them the
\* Idle and the User counter of a CPU move freely (up, or down as after a
\* counter reset), the other counters stay or advance together by d; the
\* counters of the first two CPUs are given by m, a further CPU c follows CPU
\* c mod 2.
ResetPairInput(n, d, m) ==
    [fn |-> "resetpair",
     cpuToCore |-> CpuToCoreOf(TopologyInfos(n, "adjacent")),
     coreToCpus |-> CoreToCpusOf(TopologyInfos(n, "adjacent")),
     prev |-> [c \in 0 .. (2 * n - 1) |->
                  Snap(c, 0, 1, "Idle", m[c % 2][1], "User", m[c % 2][3])],
     cur |-> [c \in 0 .. (2 * n - 1) |->
                  Snap(c, 1, 1 + d, "Idle", m[c % 2][2], "User", m[c % 2][4])]]

InitResetPair ==
    /\ LoopOff
    /\ ret = NoResult
    /\ \E n \in 1 .. MaxCores, d \in 0 .. 1 :
         \E m \in [0 .. 1 -> (0 .. MaxCounter) \X (0 .. MaxCounter)
                                \X (0 .. MaxCounter) \X (0 .. MaxCounter)] :
             arg = ResetPairInput(n, d, m)

\* The steady tick's computation on the two snapshot sets: NewCPUTimePeriod of
\* every CPU's previous and current snapshot, both estimators, and the
\* remaining capacities of the values they return.
CallResetPair ==
    /\ arg.fn = "resetpair"
    /\ ~ret.done
    /\ LET made == [c \in DOMAIN arg.cur |-> NewCPUTimePeriod(arg.prev[c], arg.cur[c])]
           periods == [c \in { x \in DOMAIN made : made[x].err = None } |-> made[c].period]
           avg == DoAverageCPUUsage(periods)
           adjusted == DoAdjustedCPUUsage(arg.cpuToCore, arg.coreToCpus, periods)
           remaining(r) == IF r.err = None /\ ~r.panic THEN Remaining(r.usage) ELSE None
       IN ret' = [done |-> TRUE,
                  made |-> made,
                  avg |-> avg,
                  adjusted |-> adjusted,
                  avgRemaining |-> remaining(avg),
                  adjustedRemaining |-> remaining(adjusted)]
    /\ UNCHANGED <<arg, loopVars>>

NextResetPair == CallResetPair

SpecResetPair == InitResetPair /\ [][NextResetPair]_vars

\* The lines a /proc/stat may hold: the system-wide line, a line of another
\* kind, a per-CPU line of an old kernel (nine counters), a per-CPU line with
\* a field that is no number, and complete per-CPU lines.
RawLine(cpu, user, nice, guest, guestNice) ==
    StatLine(TRUE, Num(cpu),
             <<Num(user), Num(nice), Num(3), Num(4), Num(5), Num(6), Num(7), Num(8),
               Num(guest), Num(guestNice)>>)

StatLines ==
    { StatLine(TRUE, Text, RawCounters(1)),
      StatLine(FALSE, Text, <<Num(1)>>),
      StatLine(TRUE, Num(0), <<Num(1), Num(1), Num(1), Num(1), Num(1), Num(1), Num(1), Num(1), Num(1)>>),
      StatLine(TRUE, Num(0), <<Num(1), Num(1), Num(1), Text, Num(1), Num(1), Num(1), Num(1), Num(1), Num(1)>>) }
    \cup { RawLine(cpu, user, nice, guest, guestNice) :
           cpu \in 0 .. 1, user \in 0 .. MaxRaw, nice \in 0 .. MaxRaw,
           guest \in 0 .. MaxRaw, guestNice \in 0 .. MaxRaw }

\* /proc/stat is unreadable, or holds up to two of those lines.
InitSampler ==
    /\ LoopOff
    /\ ret = NoResult
    /\ \E f \in {Unreadable, Readable(<<>>)} \cup { Readable(<<l>>) : l \in StatLines } :
         \/ arg = [fn |-> "getCPUTimes", procStat |-> f, now |-> 1]
         \/ \E m \in StatLines :
              /\ f.ok /\ Len(f.lines) = 1
              /\ arg = [fn |-> "getCPUTimes", procStat |-> Readable(f.lines \o <<m>>), now |-> 1]

CallGetCPUTimes ==
    /\ arg.fn = "getCPUTimes"
    /\ ~ret.done
    /\ ret' = [done |-> TRUE, val |-> getCPUTimes(arg.procStat, arg.now)]
    /\ UNCHANGED <<arg, loopVars>>

NextSampler == CallGetCPUTimes

SpecSampler == InitSampler /\ [][NextSampler]_vars

\* ------------------------------------------------------------ the claims

\* Sum of a map's values in the integers (no word width).
RECURSIVE ExactSum(_)
ExactSum(f) ==
    IF DOMAIN f = {} THEN 0
    ELSE LET x == CHOOSE y \in DOMAIN f : TRUE
         IN f[x] + ExactSum([y \in DOMAIN f \ {x} |-> f[y]])

\* The number hi * 2^64 + lo is positive, is not negative (lo is below 2^64
\* in absolute value, so hi decides unless it is 0).
Positive(x) == x.hi > 0 \/ (x.hi = 0 /\ x.lo > 0)

NotNegative(x) == x.hi > 0 \/ (x.hi = 0 /\ x.lo >= 0)

\* The usage u is greater than the usage v (positive denominators):
\* u.num * v.den - v.num * u.den > 0, the products taken by powers of 2^64.
Higher(u, v) ==
    LET d2 == u.num.hi * v.den.hi - v.num.hi * u.den.hi
        d1 == (u.num.hi * v.den.lo + u.num.lo * v.den.hi)
                - (v.num.hi * u.den.lo + v.num.lo * u.den.hi)
        d0 == u.num.lo * v.den.lo - v.num.lo * u.den.lo
    IN d2 > 0 \/ (d2 = 0 /\ (d1 > 0 \/ (d1 = 0 /\ d0 > 0)))

\* The usage u is the integer n.
IsValue(u, n) == 100 * u.num.hi = n * u.den.hi /\ 100 * u.num.lo = n * u.den.lo

EstimatorsCalled == arg.fn = "estimators" /\ ret.done

\* The sum in the integers (no word width) of a map's uint64 values, as the
\* number hi * 2^64 + lo: every value held as a negative integer n is 2^64 + n.
TrueSum(f) ==
    [hi |-> Cardinality({x \in DOMAIN f : f[x] < 0}), lo |-> ExactSum(f)]

NaiveTotal == TrueSum([c \in DOMAIN arg.periods |-> arg.periods[c].TotalPeriod])

Sibling(core, k) == arg.periods[arg.coreToCpus[core][k]]

SiblingIdleDiffers ==
    \E core \in DOMAIN arg.coreToCpus :
        Sibling(core, 1).TotalIdlePeriod # Sibling(core, 2).TotalIdlePeriod

\* C1: over a topology of two siblings per core and for every Period mapping,
\* when the naive total period is positive both estimators return a value, the
\* adjusted usage is never lower than the naive usage, and it is strictly
\* higher when some core's two siblings have different total idle periods.
C1_AdjustedNotBelowNaive ==
    (EstimatorsCalled /\ Positive(NaiveTotal)) =>
        /\ ret.avg.err = None
        /\ ret.adjusted.err = None
        /\ ~ret.adjusted.panic
        /\ ~Higher(ret.avg.usage, ret.adjusted.usage)
        /\ SiblingIdleDiffers => Higher(ret.adjusted.usage, ret.avg.usage)

CoreTotal == TrueSum([core \in DOMAIN arg.coreToCpus |->
                        Max(Sibling(core, 1).TotalPeriod, Sibling(core, 2).TotalPeriod)])

CoreIdle == TrueSum([core \in DOMAIN arg.coreToCpus |->
                       Min(Sibling(core, 1).TotalIdlePeriod, Sibling(core, 2).TotalIdlePeriod)])

\* C2: the adjusted estimator returns 100 * (1 - Sidle/Stotal), Stotal the sum
\* over the cores of the larger sibling total period and Sidle the sum of the
\* smaller sibling idle period, when Stotal > 0, and the error "total period is
\* zero" with no value when Stotal = 0; on the worked example (one core,
\* siblings (1000, 800) and (1000, 200)) the naive usage is 50 and the adjusted
\* usage is 80. The value is compared exactly where float64 holds both sums
\* exactly (periods below 2^31).
C2_AdjustedFormula ==
    EstimatorsCalled =>
        /\ ~ret.adjusted.panic
        /\ IF Positive(CoreTotal)
           THEN /\ ret.adjusted.err = None
                /\ (CoreTotal.hi = 0 /\ CoreIdle.hi = 0) =>
                     /\ ret.adjusted.usage.num.hi = 0
                     /\ ret.adjusted.usage.den.hi = 0
                     /\ ret.adjusted.usage.den.lo > 0
                     /\ ret.adjusted.usage.num.lo * CoreTotal.lo
                          = (CoreTotal.lo - CoreIdle.lo) * ret.adjusted.usage.den.lo
           ELSE /\ ret.adjusted.err = "total period is zero"
                /\ ret.adjusted.usage = None
        /\ arg = ExampleInput =>
             /\ ret.avg.err = None
             /\ IsValue(ret.avg.usage, 50)
             /\ IsValue(ret.adjusted.usage, 80)

PeriodCalled == arg.fn = "NewCPUTimePeriod" /\ ret.done

\* max(t2.x - t1.x, 0) of the counter x of the two snapshots given.
Delta(x) == IF arg.t2[x] >= arg.t1[x] THEN arg.t2[x] - arg.t1[x] ELSE 0

\* C3: for every accepted pair of snapshots (counters that went down
\* included) every per-category delta is max(t2.x - t1.x, 0), and the
\* aggregates are the sums of those deltas: TotalSystemPeriod = Sys + IRQ +
\* SoftIRQ periods, TotalIdlePeriod = Idle + IOWait periods, TotalPeriod = User
\* + Nice + TotalSystem + TotalIdle + Steal periods + guest and guest-nice deltas.
C3_AggregatesAreSumsOfDeltas ==
    (PeriodCalled /\ ret.val.err = None) =>
        LET p == ret.val.period
        IN /\ p.UserPeriod = Delta("User")
           /\ p.NicePeriod = Delta("Nice")
           /\ p.SysPeriod = Delta("Sys")
           /\ p.IdlePeriod = Delta("Idle")
           /\ p.IOWaitPeriod = Delta("IOWait")
           /\ p.IRQPeriod = Delta("IRQ")
           /\ p.SoftIRQPeriod = Delta("SoftIRQ")
           /\ p.StealPeriod = Delta("Steal")
           /\ p.GuestPeriod = Delta("Guest")
           /\ p.TotalSystemPeriod = p.SysPeriod + p.IRQPeriod + p.SoftIRQPeriod
           /\ p.TotalIdlePeriod = p.IdlePeriod + p.IOWaitPeriod
           /\ p.TotalPeriod = p.UserPeriod + p.NicePeriod + p.TotalSystemPeriod
                              + p.TotalIdlePeriod + p.StealPeriod
                              + (Delta("Guest") + Delta("GuestNice"))

SamplerCalled == arg.fn = "getCPUTimes" /\ ret.done

\* The line is a per-CPU record: "cpu<N>" followed by ten numbers.
IsPerCPURecord(line) ==
    /\ line.cpu
    /\ line.suffix.ok
    /\ Len(line.items) >= 10
    /\ \A k \in 1 .. 10 : line.items[k].ok

\* The snapshot t is the raw record `line` with user and nice net of guest and
\* guest-nice, in the integers and not below zero, the rest passed through.
NetOfGuest(t, line) ==
    LET raw(k) == line.items[k].val
    IN /\ t.CPUId = line.suffix.val
       /\ raw(1) >= raw(9) /\ t.User = raw(1) - raw(9)
       /\ raw(2) >= raw(10) /\ t.Nice = raw(2) - raw(10)
       /\ t.Sys = raw(3) /\ t.Idle = raw(4) /\ t.IOWait = raw(5) /\ t.IRQ = raw(6)
       /\ t.SoftIRQ = raw(7) /\ t.Steal = raw(8) /\ t.Guest = raw(9) /\ t.GuestNice = raw(10)

\* C4: every snapshot the sampler produces is a raw per-CPU record with
\* User = rawUser - rawGuest and Nice = rawNice - rawGuestNice as non-negative
\* values that did not wrap, and the other eight counters unchanged.
C4_GuestSubtractionNeverWraps ==
    (SamplerCalled /\ arg.procStat.ok) =>
        \A i \in DOMAIN ret.val.cpuTimes :
            \E k \in DOMAIN arg.procStat.lines :
                /\ IsPerCPURecord(arg.procStat.lines[k])
                /\ NetOfGuest(ret.val.cpuTimes[i], arg.procStat.lines[k])

\* The loop has no retained snapshot set: the test of line 430.
AwaitingBaseline == Len(prevCPUTimes) = 0

\* The last tick ran with a retained snapshot set and a readable counter source.
SteadyTick == clock >= 1 /\ ~last.readErr /\ Len(last.prev) > 0

\* C5: the loop starts in AwaitingBaseline; its first tick stores the acquired
\* snapshot set as "previous", emits nothing and moves to Steady; the loop is
\* never again in AwaitingBaseline, and every tick taken in Steady that
\* completes without error emits exactly one sample.
C5_BaselineThenSteady ==
    /\ clock = 0 => (AwaitingBaseline /\ emitted = 0)
    /\ (clock = 1 /\ ~last.readErr) =>
           (last.outcome = "baseline" /\ prevCPUTimes = last.cur /\ emitted = 0)
    /\ (clock >= 1 /\ pc = "loop") => ~AwaitingBaseline
    /\ (clock >= 1 /\ pc = "loop") => emitted = clock - 1

\* C6: a tick on which the counter source cannot be read, or an estimator
\* reports "total period is zero", does not end the loop: it emits nothing,
\* leaves the retained snapshot set unchanged, and the loop goes on.
C6_TickErrorIsSkipped ==
    (clock >= 1 /\ last.outcome \in {"failed to get CPU times",
                                     "failed to calculate average CPU usage",
                                     "failed to calculate adjusted CPU usage"}) =>
        /\ pc = "loop"
        /\ prevCPUTimes = last.prev

\* C7: NewCPUTimePeriod fails exactly when the CPU ids differ or the second
\* snapshot is earlier than the first; and when it fails for one pair of a
\* Steady tick the Periods of the other CPUs are still computed and the loop
\* keeps running.
C7_PairingErrorIsSkipped ==
    SteadyTick =>
        LET n == Min(Len(last.prev), Len(last.cur))
            bad(i) == \/ last.prev[i].CPUId # last.cur[i].CPUId
                      \/ last.cur[i].CollectTime < last.prev[i].CollectTime
        IN /\ \A i \in 1 .. n :
                (NewCPUTimePeriod(last.prev[i], last.cur[i]).err # None) <=> bad(i)
           /\ last.outcome = "failed to create CPU time period" =>
                /\ pc = "loop"
                /\ \A i \in 1 .. n : ~bad(i) => last.prev[i].CPUId \in DOMAIN last.periods

\* The CPU ids of a snapshot set, and its entry of a CPU id.
IdsOf(times) == { times[i].CPUId : i \in DOMAIN times }

EntryOf(times, id) == times[CHOOSE i \in DOMAIN times : times[i].CPUId = id]

\* C10: on every Steady tick, whatever the lengths and orders of the two
\* snapshot sets, no out-of-range access occurs while pairing, the mapping has
\* one entry per CPU id of both sets, and each Period is computed from the
\* previous and the current entry of that CPU id.
C10_PairedByCPUId ==
    SteadyTick =>
        /\ last.outcome # "index out of range"
        /\ DOMAIN last.periods = IdsOf(last.prev) \cap IdsOf(last.cur)
        /\ \A id \in DOMAIN last.periods :
              last.periods[id]
                = NewCPUTimePeriod(EntryOf(last.prev, id), EntryOf(last.cur, id)).period

\* The CPU ids that the rows of getCPUInfos map to a core.
CpusMappedTo(core) == { cpuInfos[i].CPUId : i \in { j \in DOMAIN cpuInfos : cpuInfos[j].CoreId = core } }

EveryCoreHasTwoCPUs ==
    \A i \in DOMAIN cpuInfos : Cardinality(CpusMappedTo(cpuInfos[i].CoreId)) = 2

\* C8: the sampling loop is never entered (no tick runs, nothing is sampled)
\* unless every core of the loaded topology maps to exactly two CPU ids; a
\* topology with a core of any other number of CPUs ends main with a fatal
\* error before DoCollectorLoop is called.
C8_LoopOnlyOnTwoSiblingTopology ==
    /\ (pc = "loop" \/ clock > 0 \/ Len(prevCPUTimes) > 0) =>
           (Len(cpuInfos) > 0 /\ EveryCoreHasTwoCPUs)
    /\ (Len(cpuInfos) > 0 /\ ~EveryCoreHasTwoCPUs) =>
           (pc = "fatal" /\ clock = 0 /\ last.outcome = "core has not 2 CPUs")

\* C8 witness: main has ended with the fatal error on a topology with a core
\* of three CPUs.
C8_Witness ==
    /\ pc = "fatal"
    /\ last.outcome = "core has not 2 CPUs"
    /\ \E i \in DOMAIN cpuInfos : Cardinality(CpusMappedTo(cpuInfos[i].CoreId)) = 3

SelfPairCalled == arg.fn = "selfpair" /\ ret.done

PeriodFields ==
    {"UserPeriod", "NicePeriod", "SysPeriod", "TotalSystemPeriod", "IdlePeriod",
     "TotalIdlePeriod", "IOWaitPeriod", "IRQPeriod", "SoftIRQPeriod", "StealPeriod",
     "GuestPeriod", "TotalPeriod"}

\* C9: pairing a snapshot with an identical copy of itself gives a Period whose
\* every delta and aggregate is 0, and both estimators, given a mapping of
\* such Periods only, return the error "total period is zero": no value, no
\* panic.
C9_SelfPairIsDegenerate ==
    SelfPairCalled =>
        /\ \A c \in DOMAIN arg.times :
              /\ ret.made[c].err = None
              /\ ret.made[c].period.CPUId = c
              /\ \A f \in PeriodFields : ret.made[c].period[f] = 0
        /\ ret.avg.err = "total period is zero"
        /\ ret.avg.usage = None
        /\ ~ret.adjusted.panic
        /\ ret.adjusted.err = "total period is zero"
        /\ ret.adjusted.usage = None

\* C9 witness: two cores whose CPUs all have non-zero counters were paired
\* with themselves, and both estimators reported the error.
C9_Witness ==
    /\ SelfPairCalled
    /\ Cardinality(DOMAIN arg.coreToCpus) = 2
    /\ \A c \in DOMAIN arg.times : TotalTime(arg.times[c]) > 0 /\ arg.times[c].Sys > 0
    /\ ret.avg.err = "total period is zero"
    /\ ret.adjusted.err = "total period is zero"

ResetPairCalled == arg.fn = "resetpair" /\ ret.done

\* The number u lies in [0, 100] (positive denominator).
InPercentRange(u) ==
    /\ NotNegative(u.num)
    /\ NotNegative([hi |-> u.den.hi - u.num.hi, lo |-> u.den.lo - u.num.lo])

\* C11: every Period NewCPUTimePeriod makes of an accepted pair of snapshots,
\* pairs with a counter that went down included, has TotalIdlePeriod <=
\* TotalPeriod; and whenever an estimator returns a value, that usage and the
\* remaining capacity derived from it lie in [0, 100].
C11_IdleWithinTotalAndUsageInRange ==
    ResetPairCalled =>
        /\ \A c \in DOMAIN ret.made :
              ret.made[c].err = None =>
                  ret.made[c].period.TotalIdlePeriod <= ret.made[c].period.TotalPeriod
        /\ (ret.avg.err = None /\ ~ret.avg.panic) =>
              InPercentRange(ret.avg.usage) /\ InPercentRange(ret.avgRemaining)
        /\ (ret.adjusted.err = None /\ ~ret.adjusted.panic) =>
              InPercentRange(ret.adjusted.usage) /\ InPercentRange(ret.adjustedRemaining)

====
